---- MODULE Spec2Model ----
(***************************************************************************)
(* Model of rs-calliber's measurement pipeline.                            *)
(*                                                                         *)
(*   - freq.rs: freq_of_resonance, as an operator over exact arithmetic.   *)
(*   - audio.rs: capture_input, play_output and the input callback, one    *)
(*     action per step between two accesses of shared state.               *)
(*   - calibrate.rs / detect.rs: the controller's render frame (buttons,   *)
(*     start_sound, duration timer, plot), one action per step.            *)
(*                                                                         *)
(* Samples are integers (amplitudes on an integer scale).  The transform   *)
(* is the exact DFT for the lengths whose roots of unity are Gaussian or   *)
(* Eisenstein integers (1, 2, 3, 4, 6), so magnitudes compare exactly;     *)
(* norm() is modelled by its square, which orders bins the same way.       *)
(* Sample rates are program rates divisible by every modelled length, so   *)
(* sample_rate / N is exact.                                               *)
(*                                                                         *)
(* Specifications:                                                         *)
(*   SpecFreq         freq_of_resonance called once on every bounded input.*)
(*   Spec             controller, capture and playback threads, callbacks. *)
(*   SpecCapture      Spec without play_output's steps.                    *)
(*   SpecParams       the controller alone, with DetectTab's edits.        *)
(*   SpecDevice       select_input_device / select_output_device.          *)
(*   SpecSignal       a Wave or a Chirp built and consumed.                *)
(*   SpecPlayback     controller and play_output, with fairness.           *)
(*   SpecUnattended   Spec with no Stop click, with fairness.              *)
(*   SpecStreamError  SpecCapture with the input streams' errors.          *)
(*   SpecExport       SpecCapture with the export buttons.                 *)
(***************************************************************************)
EXTENDS Integers, Sequences, FiniteSets, TLC

\* -------------------------------------------------------------------------
\* Bounds of the model
\* -------------------------------------------------------------------------

\* Largest absolute amplitude of a sample handed to freq_of_resonance.
MaxAmp == 1

\* Number of capture/playback thread pairs start_sound may spawn in a run.
MaxSessions == 2

\* Number of samples the input device delivers in a run.
MaxSamples == 2

\* Number of devices the host enumerates.
MaxDevices == 2

\* Largest sample rate (Hz) of a signal built on its own.
MaxRate == 3

\* Largest frequency (Hz) of a Wave built on its own.
MaxFreq == 2

\* Longest duration of a Wave built on its own, in units of 1 / TimeDen s.
MaxDuration == 9

\* Largest number of frames of a WAV file.
MaxFrames == 2

\* Number of errors the input streams report in a run.
MaxErrors == 1

\* -------------------------------------------------------------------------
\* Program constants
\* -------------------------------------------------------------------------

\* calibrate.rs: const DEFAULT_SAMPLE_RATE: f32 = 192000.0
DEFAULT_SAMPLE_RATE == 192000

\* calibrate.rs: const DEFAULT_CAPTURED_INPUT_SAMPLE_RATE: f32 = 44100.0
DEFAULT_CAPTURED_INPUT_SAMPLE_RATE == 44100

VARIABLES
    \* ---- host
    neon,            \* FftPlannerNeon::new() succeeds on this host
    \* ---- freq_of_resonance called on its own
    f_samples,       \* argument samples
    f_rate,          \* argument sample_rate
    f_planner,       \* argument planner: "None" or a Planner variant
    f_pc,            \* "ready" | "returned" | "panicked"
    f_out,           \* outcome of the call
    \* ---- controller (CalibrateTab / DetectTab)
    tab,             \* which tab's code the controller runs
    ui_pc,           \* position of the UI thread inside render
    current_chirp,   \* CalibrateTab.current_chirp.is_some()
    is_playing,      \* the shared AtomicBool (RunState)
    started_sound,   \* started_sound / started_playing
    expired,         \* start_time.elapsed() >= duration
    captured_buffer, \* the Arc<Mutex<Vec<f32>>> the controller holds
    last_for,        \* CalibrateTab.last_for
    for_ch,          \* results sent on for_tx and not yet received
    output_sample_rate, \* DetectTab.output_sample_rate
    captured_sample_rate, \* captured_input_sample_rate / captured_sample_rate of the tab
    tab_duration,    \* DetectTab.duration, in units of 1 / TimeDen s
    tab_sine_wave,       \* DetectTab.sine_wave: the arguments of the Wave::new that built it
    \* ---- buffers (Arc<Mutex<Vec<f32>>>)
    bufData,         \* contents
    bufHolder,       \* 0 when unlocked, else the holder of the guard: a capture
                     \* thread's session, or UiHolder
    bufPoisoned,     \* a holder panicked
    \* ---- sessions: the thread pair spawned by one start_sound
    nSessions,       \* thread pairs spawned so far
    cap_pc,          \* capture_input's position
    cap_buf,         \* the buffer capture_input was given
    cap_rate,        \* the sample_rate capture_input was given
    cap_snap,        \* locked_data.clone()
    stream,          \* the input stream of the session
    play_pc,         \* play_output's position
    nextSample,      \* the next sample the input device delivers
    \* ---- history
    cap_pending,     \* is_playing went false while capture_input polled, not yet polled since
    play_pending,    \* is_playing went false while play_output polled, not yet polled since
    cap_seen,        \* samples the session's callback appended while capture_input polled
    delivered,       \* per buffer: the frames handed to its callbacks since its last Clear
    prompts,         \* "Please choose a chirp input file" messages start_sound has sent
                     \* on status_tx since is_playing last went from false to true
    export_msgs,     \* the messages the current export task has sent on status_tx
                     \* ("" stands for its end without a last message)
    for_from,        \* for each result in for_ch, the session that sent it
    last_from,       \* the session whose result last_for holds, 0 for the initial 0.0
    \* ---- the output side of a session
    sink,            \* the rodio Sink of play_output: "none" | "playing" | "empty" | "stopped"
    \* ---- the error callback of the input streams
    stream_errors,   \* per session: lines its error callback wrote to stderr
    \* ---- export of the captured input
    export_pc,       \* "idle" | "writing" | "done" | "failed"
    export_copy,     \* the Vec the export task owns (CalibrateTab)
    export_file,     \* the samples written to the file
    export_req,      \* history: the buffer's contents when the export was requested
    \* ---- select_input_device / select_output_device called on their own
    d_kind,          \* "input" | "output": which of the two is called
    d_enumerable,    \* get_input_devices() / get_output_devices() is Ok
    d_devices,       \* the names of the devices the host enumerates, in order
    d_default,       \* the host's default device: its position, 0 for None
    d_name,          \* argument device_name
    d_pc,            \* "idle" | "ready" | "returned" | "panicked"
    d_out,           \* the device returned: its position
    \* ---- a Wave built and consumed on its own
    w_args,          \* arguments of Wave::new
    w_pc,            \* "idle" | "args" | "built"
    wave,            \* the Wave
    w_calls,         \* calls of next() so far
    w_ret,           \* what the last next() returned
    \* ---- a Chirp built from a WAV file and consumed on its own
    c_wav,           \* the WAV file behind the reader
    c_pc,            \* "idle" | "file" | "built" | "failed"
    c_chirp,         \* the Chirp
    c_calls,         \* calls of next() so far
    c_ret            \* what the last next() returned

fvars == <<f_samples, f_rate, f_planner, f_pc, f_out>>

paramvars == <<output_sample_rate, captured_sample_rate, tab_duration>>

uivars == <<tab, ui_pc, current_chirp, is_playing, started_sound, expired,
            captured_buffer, last_for, for_ch, paramvars, tab_sine_wave>>

bufvars == <<bufData, bufHolder, bufPoisoned>>

capvars == <<cap_pc, cap_buf, cap_rate, cap_snap, stream>>

histvars == <<cap_pending, play_pending, cap_seen, delivered>>

\* What is sent on status_tx.
statusvars == <<prompts, export_msgs>>

\* History of the result channel.
resvars == <<for_from, last_from>>

expvars == <<export_pc, export_copy, export_file, export_req>>

\* The variables only the error callback and the export change.
ovars == <<stream_errors, expvars>>

cvars == <<uivars, bufvars, nSessions, capvars, play_pc, sink, nextSample, histvars, resvars,
           statusvars, ovars>>

dvars == <<d_kind, d_enumerable, d_devices, d_default, d_name, d_pc, d_out>>

wvars == <<w_args, w_pc, wave, w_calls, w_ret>>

chvars == <<c_wav, c_pc, c_chirp, c_calls, c_ret>>

xvars == <<dvars, wvars, chvars>>

\* -------------------------------------------------------------------------
\* freq.rs
\* -------------------------------------------------------------------------

\* enum Planner
Planner == {"FftPlanner", "FftPlannerNeon", "FftPlannerScalar"}

\* Lengths for which the exact transform is defined.
FftLens == {0, 1, 2, 3, 4, 6}

\* e^{-2 pi i j / 6} in the basis (1, w), w = e^{2 pi i / 3}.
Twiddle6 == << <<1, 0>>, <<0, -1>>, <<-1, -1>>, <<-1, 0>>, <<0, 1>>, <<1, 1>> >>

\* e^{-2 pi i j / 4} in the basis (1, i).
Twiddle4 == << <<1, 0>>, <<0, -1>>, <<-1, 0>>, <<0, 1>> >>

\* The forward twiddle factor e^{-2 pi i j / n}: in the basis (1, i) for n = 4,
\* in the basis (1, w) for n dividing 6.
Twiddle(n, j) ==
    IF n = 4 THEN Twiddle4[(j % 4) + 1]
    ELSE Twiddle6[((j * (6 \div n)) % 6) + 1]

\* |z|^2 of z = <<a, b>> in the basis used for length n.
NormSqr(n, z) ==
    IF n = 4 THEN z[1] * z[1] + z[2] * z[2]
    ELSE z[1] * z[1] - z[1] * z[2] + z[2] * z[2]

RECURSIVE BinSum(_, _, _, _)
\* Component c of sum_{m = i..N} x[m] * e^{-2 pi i (m-1) k / N}.
BinSum(x, k, c, i) ==
    IF i > Len(x) THEN 0
    ELSE x[i] * Twiddle(Len(x), (i - 1) * k)[c] + BinSum(x, k, c, i + 1)

\* fft.process(&mut fft_input): the forward DFT of length N = Len(x), in place.
\* Every backend computes this same transform.
FftProcess(x) ==
    [k \in 1..Len(x) |-> <<BinSum(x, k - 1, 1, 1), BinSum(x, k - 1, 2, 1)>>]

\* match planner { ... }: the backend that plans the transform.
PlanBackend(planner) ==
    CASE planner = "None" -> "FftPlanner"
      [] planner = "FftPlanner" -> "FftPlanner"
      [] planner = "FftPlannerNeon" -> "FftPlannerNeon"
      [] planner = "FftPlannerScalar" -> "FftPlannerScalar"

\* Variant of SearchedBins: the peak search runs over the whole spectrum.
SearchedBins_WholeSpectrum(n) == n

\* The bins the peak search looks at: fft_input[0..num_samples / 2].
SearchedBins(n) == n \div 2

\* fft_input[0..num_samples / 2].iter().map(|c| c.norm()).collect()
Magnitudes(x) ==
    [k \in 1..SearchedBins(Len(x)) |-> NormSqr(Len(x), FftProcess(x)[k])]

\* The comparison step of Iterator::max_by: the accumulated element is kept
\* only when it compares Greater; on Equal the later element wins.
MaxByKeep(acc, next) == acc > next

RECURSIVE MaxByFrom(_, _, _)
\* Iterator::max_by folded from position i with best (1-based) so far.
MaxByFrom(mags, i, best) ==
    IF i > Len(mags) THEN best
    ELSE MaxByFrom(mags, i + 1,
                   IF MaxByKeep(mags[best], mags[i]) THEN best ELSE i)

\* magnitudes.iter().enumerate().max_by(..): the 0-based index of the peak,
\* or -1 for None (an empty iterator).
MaxIndex(mags) ==
    IF Len(mags) = 0 THEN -1 ELSE MaxByFrom(mags, 2, 1) - 1

\* max_index as f32 * (sample_rate / num_samples as f32)
ResultFreq(max_index, sample_rate, n) == max_index * (sample_rate \div n)

\* freq_of_resonance(samples, sample_rate, planner) on a host where NEON is
\* available or not.  Outcome: a frequency, or a panic with the line's reason.
freq_of_resonance(samples, sample_rate, planner, hostNeon) ==
    LET n == Len(samples)
        mags == Magnitudes(samples)
        k == MaxIndex(mags)
    IN  IF ~hostNeon
        THEN [kind |-> "panic", why |-> "FftPlannerNeon::new", backend |-> "none",
              len |-> n, k |-> -1, val |-> 0]
        ELSE IF k = -1
        THEN [kind |-> "panic", why |-> "max_by is None", backend |-> PlanBackend(planner),
              len |-> n, k |-> -1, val |-> 0]
        ELSE [kind |-> "ok", why |-> "", backend |-> PlanBackend(planner),
              len |-> n, k |-> k, val |-> ResultFreq(k, sample_rate, n)]

NoOutcome == [kind |-> "none", why |-> "", backend |-> "none", len |-> 0, k |-> -1, val |-> 0]

\* sin(2 pi j / 4) for j = 0..3.
Sin4 == <<0, 1, 0, -1>>

\* sin(2 pi j / 6) for j = 0..5, in units of sqrt(3) / 2.
Sin6 == <<0, 1, 1, 0, -1, -1>>

\* tests::generate_sine_wave(frequency, sample_rate, duration) for a frequency
\* of `cycles` bins, frequency = cycles * sample_rate / sample_count, and
\* sample_count = sample_rate * duration samples:
\*     (0..sample_count).map(|i| (2 pi frequency i / sample_rate).sin())
\* For sample_count = 4 the values are exact; for sample_count dividing 6 they
\* are in units of sqrt(3) / 2, a positive factor common to every sample.
generate_sine_wave(cycles, sample_count) ==
    [i \in 1..sample_count |->
        IF sample_count = 4 THEN Sin4[(((i - 1) * cycles) % 4) + 1]
        ELSE Sin6[(((i - 1) * cycles * (6 \div sample_count)) % 6) + 1]]

\* -------------------------------------------------------------------------
\* audio.rs: device resolution
\* -------------------------------------------------------------------------

\* The reserved name, and the names devices have.  A device whose name()
\* fails is listed as NameErr.
NameErr == "<name error>"

DeviceNames == {"Default", "Mic", "mic"}

\* The name without its letters' case (used by the variant below only).
Lowercase(name) == IF name = "Mic" THEN "mic" ELSE name

\* Variant of NameMatches: the comparison ignores the letters' case.
NameMatches_IgnoreCase(name, device_name) == Lowercase(name) = Lowercase(device_name)

\* The closure of find: d.name().unwrap() == device_name
NameMatches(name, device_name) == name = device_name

RECURSIVE FindDevice(_, _, _)
\* devices.find(|d| d.name().unwrap() == device_name).unwrap() from position i:
\* the position of the first match; a panic when a name() before it fails or
\* when there is no match.
FindDevice(devices, device_name, i) ==
    IF i > Len(devices) THEN [kind |-> "panic", why |-> "find is None", device |-> 0]
    ELSE IF devices[i] = NameErr THEN [kind |-> "panic", why |-> "name()", device |-> 0]
    ELSE IF NameMatches(devices[i], device_name) THEN [kind |-> "ok", why |-> "", device |-> i]
    ELSE FindDevice(devices, device_name, i + 1)

\* select_input_device(device_name) on a host with the given input devices.
select_input_device(enumerable, devices, default, device_name) ==
    IF device_name = "Default"
    THEN IF default = 0
         THEN [kind |-> "panic", why |-> "default_input_device is None", device |-> 0]
         ELSE [kind |-> "ok", why |-> "", device |-> default]
    ELSE IF ~enumerable
         THEN [kind |-> "panic", why |-> "get_input_devices", device |-> 0]
         ELSE FindDevice(devices, device_name, 1)

\* select_output_device(device_name) on a host with the given output devices.
select_output_device(enumerable, devices, default, device_name) ==
    IF device_name = "Default"
    THEN IF default = 0
         THEN [kind |-> "panic", why |-> "default_output_device is None", device |-> 0]
         ELSE [kind |-> "ok", why |-> "", device |-> default]
    ELSE IF ~enumerable
         THEN [kind |-> "panic", why |-> "get_output_devices", device |-> 0]
         ELSE FindDevice(devices, device_name, 1)

\* No call of the device resolution is under way.
IdleDevices ==
    /\ d_kind = "input" /\ d_enumerable = TRUE /\ d_devices = <<>> /\ d_default = 0
    /\ d_name = "Default" /\ d_pc = "idle" /\ d_out = 0

\* -------------------------------------------------------------------------
\* wave.rs, chirp.rs: the excitation signals
\* -------------------------------------------------------------------------

\* Durations are counted in quarters of a second (exact in f32); sample rates
\* and frequencies are whole numbers of Hz.
TimeDen == 4

\* Variant of TotalSamples: the product is rounded to the nearest integer.
TotalSamples_Rounded(sample_rate, duration) ==
    IF sample_rate * duration <= 0 THEN 0
    ELSE (2 * sample_rate * duration + TimeDen) \div (2 * TimeDen)

\* (sample_rate * duration) as usize: the cast truncates toward zero and
\* saturates at 0 for a negative product.
TotalSamples(sample_rate, duration) ==
    IF sample_rate * duration <= 0 THEN 0
    ELSE (sample_rate * duration) \div TimeDen

\* (two_pi_f * sample_clock / sample_rate).sin(), as the phase of its argument:
\* the value is sin(2 pi p / |sample_rate|) for the p returned.
SampleValue(frequency, sample_clock, sample_rate) ==
    IF sample_rate > 0 THEN (frequency * sample_clock) % sample_rate
    ELSE IF sample_rate < 0 THEN (-(frequency * sample_clock)) % (-sample_rate)
    ELSE 0

\* sample_clock += 1.0; if sample_clock > sample_rate { sample_clock = 0.0 }
NextClock(sample_clock, sample_rate) ==
    IF sample_clock + 1 > sample_rate THEN 0 ELSE sample_clock + 1

RECURSIVE SineLoop(_, _, _, _, _)
\* The for loop of build_sine_wave: `left` turns to go, sine_wave so far.
SineLoop(left, sine_wave, sample_clock, frequency, sample_rate) ==
    IF left = 0 THEN sine_wave
    ELSE SineLoop(left - 1,
                  Append(sine_wave, SampleValue(frequency, sample_clock, sample_rate)),
                  NextClock(sample_clock, sample_rate), frequency, sample_rate)

\* Wave::build_sine_wave
build_sine_wave(sample_rate, frequency, duration) ==
    SineLoop(TotalSamples(sample_rate, duration), <<>>, 0, frequency, sample_rate)

\* Wave::new(sample_rate, frequency, duration)
WaveNew(sample_rate, frequency, duration) ==
    [samples |-> build_sine_wave(sample_rate, frequency, duration),
     sample_rate |-> sample_rate, duration |-> duration, index |-> 0,
     frequency |-> frequency]

\* What next() returns: Some(sample) or None.
Some(v) == [some |-> TRUE, v |-> v]

None == [some |-> FALSE, v |-> 0]

\* Variant of CursorStep: the cursor starts over when it reaches the end.
CursorStep_Restart(index, len) == IF index + 1 >= len THEN 0 ELSE index + 1

\* self.index += 1
CursorStep(index, len) == index + 1

\* <Wave as Iterator>::next: the signal after the call and the value returned.
WaveNext(w) ==
    IF w.index < Len(w.samples)
    THEN [sig |-> [w EXCEPT !.index = CursorStep(w.index, Len(w.samples))],
          ret |-> Some(w.samples[w.index + 1])]
    ELSE [sig |-> w, ret |-> None]

\* The samples of a WAV file as r.samples::<i16>() yields them: every sample
\* of every channel, interleaved; an error when the file's samples are wider
\* than 16 bits.
ReadSamples(wav) ==
    IF wav.bits > 16 /\ Len(wav.data) > 0
    THEN [kind |-> "err", samples |-> <<>>]
    ELSE [kind |-> "ok", samples |-> wav.data]

\* Chirp::try_from(reader): duration = r.duration() / spec.sample_rate is a
\* division of u32, r.duration() being the number of frames.
ChirpTryFrom(wav) ==
    LET read == ReadSamples(wav) IN
    IF read.kind = "err"
    THEN [kind |-> "err",
          chirp |-> [samples |-> <<>>, sample_rate |-> 0, duration |-> 0, index |-> 0,
                     start_freq |-> 0, end_freq |-> 0]]
    ELSE [kind |-> "ok",
          chirp |-> [samples |-> read.samples, sample_rate |-> wav.sample_rate,
                     duration |-> wav.frames \div wav.sample_rate, index |-> 0,
                     start_freq |-> 0, end_freq |-> 0]]

\* <Chirp as Iterator>::next: the signal after the call and the value returned.
ChirpNext(c) ==
    IF c.index < Len(c.samples)
    THEN [sig |-> [c EXCEPT !.index = c.index + 1], ret |-> Some(c.samples[c.index + 1])]
    ELSE [sig |-> c, ret |-> None]

NoWave == [samples |-> <<>>, sample_rate |-> 0, duration |-> 0, index |-> 0, frequency |-> 0]

NoChirp == [samples |-> <<>>, sample_rate |-> 0, duration |-> 0, index |-> 0,
            start_freq |-> 0, end_freq |-> 0]

NoWav == [frames |-> 0, sample_rate |-> 0, channels |-> 0, bits |-> 0, data |-> <<>>]

\* No Wave is built on its own.
IdleWave ==
    /\ w_args = [sample_rate |-> 0, frequency |-> 0, duration |-> 0]
    /\ w_pc = "idle" /\ wave = NoWave /\ w_calls = 0 /\ w_ret = None

\* No Chirp is built on its own.
IdleChirp ==
    /\ c_wav = NoWav /\ c_pc = "idle" /\ c_chirp = NoChirp /\ c_calls = 0 /\ c_ret = None

\* -------------------------------------------------------------------------
\* The coordinator: controller, buffers, threads
\* -------------------------------------------------------------------------

\* detect.rs: captured_sample_rate: 192000.0 in DetectTab::new
DETECT_CAPTURED_SAMPLE_RATE == 192000

\* detect.rs: output_sample_rate: 192000.0 in DetectTab::new
DETECT_OUTPUT_SAMPLE_RATE == 192000

\* detect.rs: sine_wave_freq: f32 = 441.0 in DetectTab::new
DETECT_SINE_WAVE_FREQ == 441

\* detect.rs: duration: 5.0 (seconds) in DetectTab::new
DETECT_DURATION == 5

Tabs == {"calibrate", "detect"}

Sessions == 1..MaxSessions

\* A buffer is replaced only after a capture thread poisoned the one before.
BufIds == 1..(MaxSessions + 1)

\* The process is alive: the UI (main) thread has not panicked.
Running == ui_pc # "crashed"

\* CalibrateTab::new / DetectTab::new
Constructed ==
    /\ ui_pc = "controls"
    /\ current_chirp = (tab = "detect")
    /\ is_playing = FALSE
    /\ started_sound = FALSE
    /\ expired = FALSE
    /\ captured_buffer = 1
    /\ last_for = 0
    /\ for_ch = <<>>
    /\ output_sample_rate = DETECT_OUTPUT_SAMPLE_RATE
    /\ captured_sample_rate = IF tab = "calibrate" THEN DEFAULT_CAPTURED_INPUT_SAMPLE_RATE
                              ELSE DETECT_CAPTURED_SAMPLE_RATE
    /\ tab_duration = DETECT_DURATION * TimeDen
    /\ tab_sine_wave = [sample_rate |-> DETECT_OUTPUT_SAMPLE_RATE,
                    frequency |-> DETECT_SINE_WAVE_FREQ,
                    duration |-> DETECT_DURATION * TimeDen]
    /\ bufData = [b \in BufIds |-> <<>>]
    /\ bufHolder = [b \in BufIds |-> 0]
    /\ bufPoisoned = [b \in BufIds |-> FALSE]
    /\ nSessions = 0
    /\ cap_pc = [s \in Sessions |-> "unborn"]
    /\ cap_buf = [s \in Sessions |-> 0]
    /\ cap_rate = [s \in Sessions |-> 0]
    /\ cap_snap = [s \in Sessions |-> <<>>]
    /\ stream = [s \in Sessions |-> "none"]
    /\ play_pc = [s \in Sessions |-> "unborn"]
    /\ nextSample = 1
    /\ cap_pending = [s \in Sessions |-> FALSE]
    /\ play_pending = [s \in Sessions |-> FALSE]
    /\ cap_seen = [s \in Sessions |-> {}]
    /\ delivered = [b \in BufIds |-> <<>>]
    /\ for_from = <<>>
    /\ last_from = 0
    /\ prompts = 0
    /\ export_msgs = <<>>
    /\ sink = [s \in Sessions |-> "none"]
    /\ stream_errors = [s \in Sessions |-> 0]
    /\ export_pc = "idle"
    /\ export_copy = <<>>
    /\ export_file = <<>>
    /\ export_req = <<>>

\* The coordinator as InitFreq leaves it: constructed, never started.
IdleCoordinator == tab = "calibrate" /\ Constructed

\* Variant of SessionRate: both tabs hand over their captured-input rate.
SessionRate_OfTab == captured_sample_rate

\* The sample rate start_sound hands to capture_input: CalibrateTab the
\* constant DEFAULT_SAMPLE_RATE, DetectTab self.captured_sample_rate.clone().
SessionRate == IF tab = "calibrate" THEN DEFAULT_SAMPLE_RATE ELSE captured_sample_rate

\* The capture threads inside the loop's sleep: the loop was entered and
\* play() was called at least once.
CapSleeping == {s \in Sessions : cap_pc[s] = "loop" /\ stream[s] \in {"playing", "dead"}}

\* The playback threads inside the loop's sleep.
PlaySleeping == {s \in Sessions : play_pc[s] = "sleep"}

\* History: is_playing goes from true to false; the stop is pending for the
\* threads sleeping in their loops at that moment.
MarkStopped(pending, sleeping) ==
    [s \in Sessions |-> pending[s] \/ s \in sleeping]

\* History: thread s polled; no stop is pending for it any more.
Polled(pending, s) == [pending EXCEPT ![s] = FALSE]

\* ---- render: one frame up to the plot ------------------------------------

\* The two spawn(..) calls of start_sound: session s gets the controller's
\* buffer, sender and flag.  DetectTab builds the Wave it plays from its
\* parameters as they are: Wave::new(output_sample_rate, sine_wave_freq, duration).
Spawn(s) ==
    /\ nSessions' = s
    /\ cap_pc' = [cap_pc EXCEPT ![s] = "spawned"]
    /\ play_pc' = [play_pc EXCEPT ![s] = "spawned"]
    /\ cap_buf' = [cap_buf EXCEPT ![s] = captured_buffer]
    /\ cap_rate' = [cap_rate EXCEPT ![s] = SessionRate]
    /\ UNCHANGED sink
    /\ tab_sine_wave' = IF tab = "detect"
                    THEN [sample_rate |-> output_sample_rate,
                          frequency |-> DETECT_SINE_WAVE_FREQ,
                          duration |-> tab_duration]
                    ELSE tab_sine_wave

\* Variant of Prompt: the message is sent whatever started_sound is.
Prompt_EveryFrame(st, chirp) == tab = "calibrate" /\ ~chirp

\* CalibrateTab::start_sound spawns the task that sends "Please choose a
\* chirp input file": started_sound was false and no chirp is loaded.
Prompt(st, chirp) == ~st /\ tab = "calibrate" /\ ~chirp

\* Variant of StartSound: the threads are spawned whatever started_sound is.
StartSound_Respawn(st, ex, chirp) ==
    [started |-> TRUE,
     spawn |-> ~(tab = "calibrate" /\ ~chirp),
     expired |-> IF ~st /\ tab = "detect" THEN FALSE ELSE ex]

\* start_sound with started_sound = st, the timer state ex and the signal
\* chirp: the flag it leaves, whether it spawns, and the timer state (DetectTab
\* restarts start_time here).
StartSound(st, ex, chirp) ==
    [started |-> TRUE,
     spawn |-> ~st /\ ~(tab = "calibrate" /\ ~chirp),
     expired |-> IF ~st /\ tab = "detect" THEN FALSE ELSE ex]

\* update_outgoing_wave_graph stops the session: elapsed >= duration
\* (CalibrateTab returns before the test when no chirp is loaded).
\* A DetectTab duration that is not positive has elapsed at once.
TimerFires(ex, chirp) ==
    /\ ~(tab = "calibrate" /\ ~chirp)
    /\ ex \/ (tab = "detect" /\ tab_duration <= 0)

\* The part of render after the buttons, entered with is_playing = p,
\* started_sound = st, the timer state ex and the signal chirp:
\*     if is_playing { start_sound(); update_outgoing_wave_graph(); }
\* The stores to is_playing of one frame are seen by the threads as one: a
\* frame never stores true and then false (Start restarts the timer).
RenderSession(p, st, ex, chirp) ==
    LET ss == StartSound(st, ex, chirp)
        fires == TimerFires(ss.expired, chirp)
    IN  /\ is_playing' = (p /\ ~fires)
        /\ started_sound' = IF p THEN ~fires ELSE st
        /\ expired' = IF p THEN ss.expired ELSE ex
        /\ IF p /\ ss.spawn
           THEN nSessions < MaxSessions /\ Spawn(nSessions + 1)
           ELSE UNCHANGED <<nSessions, cap_pc, play_pc, sink, cap_buf, cap_rate, tab_sine_wave>>
        /\ cap_pending' = IF is_playing /\ ~is_playing'
                          THEN MarkStopped(cap_pending, CapSleeping) ELSE cap_pending
        /\ play_pending' = IF is_playing /\ ~is_playing'
                           THEN MarkStopped(play_pending, PlaySleeping) ELSE play_pending
        /\ prompts' = (IF p /\ ~is_playing THEN 0 ELSE prompts)
                       + (IF p /\ Prompt(st, chirp) THEN 1 ELSE 0)
        /\ ui_pc' = "plot"

\* A frame in which no button is clicked.
NoClick ==
    /\ Running /\ ui_pc = "controls"
    /\ RenderSession(is_playing, started_sound, expired, current_chirp)
    /\ UNCHANGED <<tab, current_chirp, captured_buffer, last_for, for_ch, paramvars>>
    /\ UNCHANGED <<neon, fvars, xvars, export_msgs, resvars, ovars, bufvars, cap_snap, stream, nextSample, cap_seen, delivered>>

\* A frame in which CalibrateTab::paint_input_file_input loads a file.
SelectInputFile ==
    /\ Running /\ ui_pc = "controls"
    /\ tab = "calibrate"
    /\ current_chirp' = TRUE
    /\ RenderSession(is_playing, started_sound, expired, TRUE)
    /\ UNCHANGED <<tab, captured_buffer, last_for, for_ch, paramvars>>
    /\ UNCHANGED <<neon, fvars, xvars, export_msgs, resvars, ovars, bufvars, cap_snap, stream, nextSample, cap_seen, delivered>>

\* A frame in which "Start" is clicked: CalibrateTab::plot, or the store in
\* DetectTab's button handler.
ClickStart ==
    /\ Running /\ ui_pc = "controls"
    /\ nSessions < MaxSessions
    /\ RenderSession(TRUE, started_sound,
                     IF tab = "calibrate" THEN FALSE ELSE expired, current_chirp)
    /\ UNCHANGED <<tab, current_chirp, captured_buffer, last_for, for_ch, paramvars>>
    /\ UNCHANGED <<neon, fvars, xvars, export_msgs, resvars, ovars, bufvars, cap_snap, stream, nextSample, cap_seen, delivered>>

\* A frame in which "Stop" is clicked: CalibrateTab::stop, or the two stores
\* in DetectTab's button handler.
ClickStop ==
    /\ Running /\ ui_pc = "controls"
    /\ RenderSession(FALSE, FALSE, expired, current_chirp)
    /\ UNCHANGED <<tab, current_chirp, captured_buffer, last_for, for_ch, paramvars>>
    /\ UNCHANGED <<neon, fvars, xvars, export_msgs, resvars, ovars, bufvars, cap_snap, stream, nextSample, cap_seen, delivered>>

\* What "Clear" does to buffer b once the lock call returns: the cleared
\* contents, the buffer the controller holds afterwards, and whether the UI
\* thread panicked.
ClearBuffer(b) ==
    IF ~bufPoisoned[b]
    THEN [data |-> [bufData EXCEPT ![b] = <<>>], buffer |-> b, crashed |-> FALSE]
    ELSE IF tab = "calibrate"
    THEN \* `if let Ok(..)` fails: self.captured_buffer = Arc::new(..)
         [data |-> bufData, buffer |-> b + 1, crashed |-> FALSE]
    ELSE \* lock().unwrap() panics on the UI thread
         [data |-> bufData, buffer |-> b, crashed |-> TRUE]

\* Variant of ClearEnabled: the button is never disabled.
ClearEnabled_Always == TRUE

\* "Clear" can be clicked: ui.disable() precedes the button while is_playing.
ClearEnabled == ~is_playing

\* A frame in which "Clear" is clicked; the lock call waits for the guard.
ClickClear ==
    /\ Running /\ ui_pc = "controls"
    /\ ClearEnabled
    /\ bufHolder[captured_buffer] = 0
    /\ LET c == ClearBuffer(captured_buffer) IN
        /\ bufData' = c.data
        /\ captured_buffer' = c.buffer
        /\ delivered' = IF bufPoisoned[captured_buffer] THEN delivered
                         ELSE [delivered EXCEPT ![captured_buffer] = <<>>]
        /\ IF c.crashed
           THEN /\ ui_pc' = "crashed"
                /\ UNCHANGED <<is_playing, started_sound, expired, nSessions, cap_pc, play_pc,
                               sink, cap_buf, cap_rate, tab_sine_wave, cap_pending, play_pending, prompts>>
           ELSE RenderSession(is_playing, started_sound, expired, current_chirp)
    /\ UNCHANGED <<tab, current_chirp, last_for, for_ch, paramvars>>
    /\ UNCHANGED <<neon, fvars, xvars, export_msgs, resvars, ovars, bufHolder, bufPoisoned, cap_snap, stream,
                   nextSample, cap_seen>>

\* The values typed into DetectTab's "Duration" field: every text that
\* parses as f32 is stored, and the empty text stores 0.
DurationEdits == {-TimeDen, 0, TimeDen}

\* The values typed into DetectTab's "Output wave sample rate" field.
SampleRateEdits == {-1, 0, MaxRate}

\* The fields are enabled: ui.disable() precedes them while is_playing.
EditEnabled == ~is_playing

\* A frame in which DetectTab::paint_duration_input stores an edit.
EditDuration ==
    /\ Running /\ ui_pc = "controls"
    /\ tab = "detect" /\ EditEnabled
    /\ \E v \in DurationEdits : tab_duration' = v
    /\ RenderSession(is_playing, started_sound, expired, current_chirp)
    /\ UNCHANGED <<tab, current_chirp, captured_buffer, last_for, for_ch, output_sample_rate,
                   captured_sample_rate>>
    /\ UNCHANGED <<neon, fvars, xvars, export_msgs, resvars, ovars, bufvars, cap_snap, stream, nextSample, cap_seen, delivered>>

\* A frame in which DetectTab::paint_output_sample_rate_input stores an edit.
EditOutputSampleRate ==
    /\ Running /\ ui_pc = "controls"
    /\ tab = "detect" /\ EditEnabled
    /\ \E v \in SampleRateEdits : output_sample_rate' = v
    /\ RenderSession(is_playing, started_sound, expired, current_chirp)
    /\ UNCHANGED <<tab, current_chirp, captured_buffer, last_for, for_ch, tab_duration,
                   captured_sample_rate>>
    /\ UNCHANGED <<neon, fvars, xvars, export_msgs, resvars, ovars, bufvars, cap_snap, stream, nextSample, cap_seen, delivered>>

\* if let Ok(freq) = self.for_rx.try_recv() { self.last_for = freq; }, with
\* the history of the result received.
TryRecv ==
    IF for_ch # <<>>
    THEN /\ last_for' = Head(for_ch) /\ for_ch' = Tail(for_ch)
         /\ last_from' = Head(for_from) /\ for_from' = Tail(for_from)
    ELSE UNCHANGED <<last_for, for_ch, resvars>>

\* ---- render: the export buttons -----------------------------------------

\* The UI thread as the holder of a buffer's guard.
UiHolder == -1

\* The export buttons can be clicked: ui.disable() precedes them while
\* is_playing.
ExportEnabled == ~is_playing

\* Variant of ExportData: the task writes what the buffer holds when it runs.
ExportData_Live(copy, live) == live

\* The samples CalibrateTab's export task writes: the Vec moved into it, the
\* clone taken under the lock when the button was handled.
ExportData(copy, live) == copy

\* The values typed into the "Captured input sample rate" field of either
\* tab: every text that parses as f32 is stored, the empty text stores 0.
CapturedRateEdits == {0, MaxRate, DEFAULT_SAMPLE_RATE}

\* A frame in which paint_captured_input_sample_rate stores an edit.
EditCapturedSampleRate ==
    /\ Running /\ ui_pc = "controls"
    /\ EditEnabled
    /\ \E v \in CapturedRateEdits : captured_sample_rate' = v
    /\ RenderSession(is_playing, started_sound, expired, current_chirp)
    /\ UNCHANGED <<tab, current_chirp, captured_buffer, last_for, for_ch, tab_duration,
                   output_sample_rate>>
    /\ UNCHANGED <<neon, fvars, xvars, export_msgs, resvars, ovars, bufvars, cap_snap, stream,
                   nextSample, cap_seen, delivered>>

\* An export is under way: its file is not written yet, or CalibrateTab's
\* task has not sent its last message.
ExportUnderWay ==
    \/ export_pc = "writing"
    \/ tab = "calibrate" /\ export_pc \in {"done", "failed"} /\ Len(export_msgs) < 2

\* The rest of a frame in which an export button is clicked and a path is
\* chosen: the plot block as in RenderPlot, then the button's handler locks
\* the buffer.  CalibrateTab clones it and spawns the task that writes the
\* file; DetectTab writes the file itself, from the buffer, under the guard.
\* (On a poisoned buffer the frame is RenderPlot's: CalibrateTab's `if let
\* Ok` skips the export, DetectTab has panicked in the plot block.  One
\* export is under way at a time.)
ExportClick ==
    /\ Running /\ ui_pc = "plot"
    /\ ExportEnabled
    /\ ~ExportUnderWay
    /\ bufHolder[captured_buffer] = 0 /\ ~bufPoisoned[captured_buffer]
    /\ IF tab = "calibrate" THEN TryRecv ELSE UNCHANGED <<last_for, for_ch, resvars>>
    /\ export_pc' = "writing"
    /\ export_msgs' = <<>>
    /\ export_req' = bufData[captured_buffer]
    /\ IF tab = "calibrate"
       THEN /\ export_copy' = bufData[captured_buffer]
            /\ ui_pc' = "controls"
            /\ UNCHANGED bufHolder
       ELSE /\ bufHolder' = [bufHolder EXCEPT ![captured_buffer] = UiHolder]
            /\ ui_pc' = "export"
            /\ UNCHANGED export_copy
    /\ UNCHANGED <<tab, current_chirp, is_playing, started_sound, expired, captured_buffer,
                   paramvars, tab_sine_wave>>
    /\ UNCHANGED <<neon, fvars, xvars, prompts, stream_errors, export_file, bufData, bufPoisoned,
                   nSessions, capvars, play_pc, sink, nextSample, histvars>>

\* CalibrateTab's export task, on the Tasker's worker thread, starts:
\* tx.send("Saving wav file") / tx.send("Saving csv file").
ExportSaving ==
    /\ Running /\ tab = "calibrate"
    /\ export_pc = "writing" /\ export_msgs = <<>>
    /\ export_msgs' = <<"Saving file">>
    /\ UNCHANGED <<neon, fvars, xvars, prompts, resvars, ovars, uivars, bufvars,
                   nSessions, capvars, play_pc, sink, nextSample, histvars>>

\* What save_mono_vec_to_wav / save_mono_vec_with_db_to_csv return: Ok(()), or
\* the error of creating or writing the file.
WriteAnswers == {"ok", "failed"}

\* Variant of SendsDone: the task ends at a failed write.
SendsDone_OnSuccess(answer) == answer = "ok"

\* The task goes on to tx.send("Done saving ... file") after a write that
\* returned answer: the `return` of the unwrap_or_else closure leaves the
\* closure, not the task.
SendsDone(answer) == TRUE

\* The task writes the file; a write that fails leaves no usable file.
ExportTask ==
    /\ Running /\ tab = "calibrate"
    /\ export_pc = "writing" /\ export_msgs # <<>>
    /\ \E answer \in WriteAnswers :
          IF answer = "ok"
          THEN /\ export_file' = ExportData(export_copy, bufData[captured_buffer])
               /\ export_pc' = "done"
          ELSE /\ export_file' = <<>>
               /\ export_pc' = "failed"
    /\ UNCHANGED <<neon, fvars, xvars, statusvars, resvars, stream_errors, export_copy, export_req, uivars, bufvars,
                   nSessions, capvars, play_pc, sink, nextSample, histvars>>

\* The task's last step: tx.send("Done saving ... file"), or its end without
\* a message.
ExportDone ==
    /\ Running /\ tab = "calibrate"
    /\ export_pc \in {"done", "failed"} /\ Len(export_msgs) = 1
    /\ export_msgs' = IF SendsDone(IF export_pc = "done" THEN "ok" ELSE "failed")
                      THEN Append(export_msgs, "Done saving file")
                      ELSE Append(export_msgs, "")
    /\ UNCHANGED <<neon, fvars, xvars, prompts, resvars, ovars, uivars, bufvars,
                   nSessions, capvars, play_pc, sink, nextSample, histvars>>

\* DetectTab's handler writes the file from the locked buffer and drops the
\* guard; the frame ends.
ExportWrite ==
    /\ Running /\ ui_pc = "export"
    /\ export_file' = bufData[captured_buffer]
    /\ export_pc' = "done"
    /\ bufHolder' = [bufHolder EXCEPT ![captured_buffer] = 0]
    /\ ui_pc' = "controls"
    /\ UNCHANGED <<tab, current_chirp, is_playing, started_sound, expired, captured_buffer,
                   last_for, for_ch, paramvars, tab_sine_wave>>
    /\ UNCHANGED <<neon, fvars, xvars, statusvars, resvars, stream_errors, export_copy, export_req, bufData,
                   bufPoisoned, nSessions, capvars, play_pc, sink, nextSample, histvars>>

\* A frame in which "Start" is clicked while nothing plays: the Start of a
\* session.
StartSession ==
    /\ ~is_playing
    /\ ClickStart

\* The block of render that locks the buffer to plot it; CalibrateTab polls
\* the result channel inside it.
RenderPlot ==
    /\ Running /\ ui_pc = "plot"
    /\ bufHolder[captured_buffer] = 0
    /\ IF bufPoisoned[captured_buffer]
       THEN /\ ui_pc' = IF tab = "detect" THEN "crashed" ELSE "controls"
            /\ UNCHANGED <<last_for, for_ch, resvars>>
       ELSE /\ ui_pc' = "controls"
            /\ IF tab = "calibrate" THEN TryRecv ELSE UNCHANGED <<last_for, for_ch, resvars>>
    /\ UNCHANGED <<tab, current_chirp, is_playing, started_sound, expired, captured_buffer,
                   paramvars, tab_sine_wave>>
    /\ UNCHANGED <<neon, fvars, xvars, statusvars, ovars, bufvars, nSessions, capvars, play_pc, sink, nextSample, histvars>>

\* Time passes while a session runs: the elapsed time reaches the duration.
\* (While is_playing is false the timer is not read before it is restarted.)
Tick ==
    /\ Running
    /\ is_playing /\ ~expired
    /\ expired' = TRUE
    /\ UNCHANGED <<tab, ui_pc, current_chirp, is_playing, started_sound,
                   captured_buffer, last_for, for_ch, paramvars, tab_sine_wave>>
    /\ UNCHANGED <<neon, fvars, xvars, statusvars, resvars, ovars, bufvars, nSessions, capvars, play_pc, sink, nextSample, histvars>>

\* ---- audio.rs: capture_input ---------------------------------------------

\* What the host's audio layer answers when a thread resolves and opens its
\* device: the device, or a failure (no default device, no device of that
\* name, no configuration, the stream cannot be built).
DeviceAnswers == {"ok", "failed"}

\* Variant of EntryReturns: capture_input has no entry check.
EntryReturns_Never(run_state) == FALSE

\* if !is_playing.load(..) { return; } at the top of capture_input.
EntryReturns(run_state) == ~run_state

\* The entry check, then select_input_device, default_input_config and
\* build_input_stream, each unwrapped: a failure panics the thread.
CapEntry(s) ==
    /\ Running /\ cap_pc[s] = "spawned"
    /\ IF EntryReturns(is_playing)
       THEN /\ cap_pc' = [cap_pc EXCEPT ![s] = "returned"]
            /\ UNCHANGED stream
       ELSE \E answer \in DeviceAnswers :
              IF answer = "ok"
              THEN /\ cap_pc' = [cap_pc EXCEPT ![s] = "loop"]
                   /\ stream' = [stream EXCEPT ![s] = "built"]
              ELSE /\ cap_pc' = [cap_pc EXCEPT ![s] = "panicked_device"]
                   /\ UNCHANGED stream
    /\ UNCHANGED <<neon, fvars, xvars, statusvars, resvars, ovars, uivars, bufvars, nSessions, cap_buf, cap_rate, cap_snap,
                   play_pc, sink, nextSample, histvars>>

\* One turn of the polling loop: is_playing is true, so play() and sleep 100 ms.
CapPollTrue(s) ==
    /\ Running /\ cap_pc[s] = "loop"
    /\ is_playing
    /\ stream' = [stream EXCEPT ![s] = IF stream[s] = "dead" THEN "dead" ELSE "playing"]
    /\ cap_pending' = Polled(cap_pending, s)
    /\ UNCHANGED <<neon, fvars, xvars, statusvars, resvars, ovars, uivars, bufvars, nSessions, cap_pc, cap_buf, cap_rate, cap_snap,
                   play_pc, sink, nextSample, play_pending, cap_seen, delivered>>

\* Variant of Paused: the stream is left as it is when the loop ends.
Paused_NotPaused(st) == st

\* input_stream.pause() on a stream in state st.
Paused(st) == IF st = "dead" THEN "dead" ELSE "paused"

\* The loop condition is false: capture_input leaves the loop and pauses the
\* stream (input_stream.pause()).
CapPollFalse(s) ==
    /\ Running /\ cap_pc[s] = "loop"
    /\ ~is_playing
    /\ cap_pc' = [cap_pc EXCEPT ![s] = "lock"]
    /\ stream' = [stream EXCEPT ![s] = Paused(stream[s])]
    /\ cap_pending' = Polled(cap_pending, s)
    /\ UNCHANGED <<neon, fvars, xvars, statusvars, resvars, ovars, uivars, bufvars, nSessions, cap_buf, cap_rate, cap_snap,
                   play_pc, sink, nextSample, play_pending, cap_seen, delivered>>

\* Variant of HoldGuard: the guard is a temporary dropped right after the clone.
HoldGuard_Temporary(s) == bufHolder

\* The guard capture_input holds from buffer.lock() to its return.
HoldGuard(s) == [bufHolder EXCEPT ![cap_buf[s]] = s]

\* buffer.lock().unwrap() and locked_data.clone(): the final snapshot.  The
\* guard stays held.  A poisoned mutex makes the unwrap panic.
CapLock(s) ==
    /\ Running /\ cap_pc[s] = "lock"
    /\ bufHolder[cap_buf[s]] = 0
    /\ IF bufPoisoned[cap_buf[s]]
       THEN /\ cap_pc' = [cap_pc EXCEPT ![s] = "panicked_lock"]
            /\ stream' = [stream EXCEPT ![s] = "dropped"]
            /\ cap_seen' = [cap_seen EXCEPT ![s] = {}]
            /\ UNCHANGED <<bufHolder, cap_snap>>
       ELSE /\ cap_pc' = [cap_pc EXCEPT ![s] = "analyze"]
            /\ bufHolder' = HoldGuard(s)
            /\ cap_snap' = [cap_snap EXCEPT ![s] = bufData[cap_buf[s]]]
            /\ UNCHANGED <<stream, cap_seen>>
    /\ UNCHANGED <<neon, fvars, xvars, statusvars, resvars, ovars, uivars, bufData, bufPoisoned, nSessions, cap_buf, cap_rate,
                   play_pc, sink, nextSample, cap_pending, play_pending, delivered>>

\* Variant of DropGuard: the guard is never dropped (std::mem::forget).
DropGuard_Leaked(s) == bufHolder

\* capture_input ends, by return or by unwinding: locked_data is dropped.
DropGuard(s) == [bufHolder EXCEPT ![cap_buf[s]] = 0]

\* freq::freq_of_resonance(locked_data.clone(), sample_rate) completes, the
\* guard still held.  With a frequency: for_tx.send(ffr), and the return drops
\* guard and stream.  A panic unwinds: the guard poisons the mutex, the stream
\* is dropped, nothing is sent.
CapAnalyze(s) ==
    /\ Running /\ cap_pc[s] = "analyze"
    /\ LET out == freq_of_resonance(cap_snap[s], cap_rate[s], "None", neon) IN
       IF out.kind = "ok"
       THEN /\ cap_pc' = [cap_pc EXCEPT ![s] = "done"]
            /\ for_ch' = Append(for_ch, out.val)
            /\ for_from' = Append(for_from, s)
            /\ UNCHANGED bufPoisoned
       ELSE /\ cap_pc' = [cap_pc EXCEPT ![s] = "panicked_analyzer"]
            /\ bufPoisoned' = [bufPoisoned EXCEPT ![cap_buf[s]] = TRUE]
            /\ UNCHANGED <<for_ch, for_from>>
    /\ bufHolder' = DropGuard(s)
    /\ stream' = [stream EXCEPT ![s] = "dropped"]
    /\ cap_seen' = [cap_seen EXCEPT ![s] = {}]
    /\ UNCHANGED <<tab, ui_pc, current_chirp, is_playing, started_sound, expired,
                   captured_buffer, last_for, paramvars, tab_sine_wave>>
    /\ UNCHANGED <<neon, fvars, xvars, statusvars, last_from, ovars, bufData, nSessions, cap_buf, cap_rate, cap_snap,
                   play_pc, sink, nextSample, cap_pending, play_pending, delivered>>

\* The input callback of session s's stream is handed one sample: lock,
\* extend, unlock.  On a poisoned mutex the unwrap panics on the driver's
\* thread and the sample is gone.
Callback(s) ==
    /\ Running /\ stream[s] = "playing"
    /\ nextSample <= MaxSamples
    /\ bufHolder[cap_buf[s]] = 0
    /\ nextSample' = nextSample + 1
    /\ delivered' = [delivered EXCEPT ![cap_buf[s]] = Append(@, nextSample)]
    /\ IF bufPoisoned[cap_buf[s]]
       THEN /\ stream' = [stream EXCEPT ![s] = "dead"]
            /\ UNCHANGED <<bufData, cap_seen>>
       ELSE /\ bufData' = [bufData EXCEPT ![cap_buf[s]] = Append(@, nextSample)]
            /\ cap_seen' = [cap_seen EXCEPT ![s] = @ \cup {nextSample}]
            /\ UNCHANGED stream
    /\ UNCHANGED <<neon, fvars, xvars, statusvars, resvars, ovars, uivars, bufHolder, bufPoisoned, nSessions, cap_pc, cap_buf, cap_rate,
                   cap_snap, play_pc, sink, cap_pending, play_pending>>

\* Variant of ErrorCallback: an error of the stream ends the session.
ErrorCallback_Stops(run_state) == FALSE

\* The error callback, move |err| { eprintln!(..) }: what it leaves in
\* is_playing.  It captures nothing.
ErrorCallback(run_state) == run_state

RECURSIVE SumUpTo(_, _)
\* f[1] + ... + f[n]
SumUpTo(f, n) == IF n = 0 THEN 0 ELSE f[n] + SumUpTo(f, n - 1)

\* The input stream of session s reports an error (the device was unplugged,
\* the backend failed): cpal calls the error callback on the driver's thread.
StreamError(s) ==
    /\ Running /\ stream[s] \in {"built", "playing", "paused"}
    /\ SumUpTo(stream_errors, MaxSessions) < MaxErrors
    /\ stream_errors' = [stream_errors EXCEPT ![s] = @ + 1]
    /\ is_playing' = ErrorCallback(is_playing)
    /\ cap_pending' = IF is_playing /\ ~is_playing'
                      THEN MarkStopped(cap_pending, CapSleeping) ELSE cap_pending
    /\ UNCHANGED <<tab, ui_pc, current_chirp, started_sound, expired, captured_buffer,
                   last_for, for_ch, paramvars, tab_sine_wave>>
    /\ UNCHANGED <<neon, fvars, xvars, statusvars, resvars, expvars, bufvars, nSessions, capvars, play_pc, sink,
                   nextSample, play_pending, cap_seen, delivered>>

\* ---- audio.rs: play_output -----------------------------------------------

\* select_output_device, OutputStream::try_from_device, Sink::try_new, each
\* unwrapped (a failure panics the thread), then sink.append(sound).
PlayOpen(s) ==
    /\ Running /\ play_pc[s] = "spawned"
    /\ \E answer \in DeviceAnswers :
          IF answer = "ok"
          THEN /\ play_pc' = [play_pc EXCEPT ![s] = "loop"]
               /\ sink' = [sink EXCEPT ![s] = "playing"]
          ELSE /\ play_pc' = [play_pc EXCEPT ![s] = "panicked_device"]
               /\ UNCHANGED sink
    /\ UNCHANGED <<neon, fvars, xvars, statusvars, resvars, ovars, uivars, bufvars, nSessions, capvars, nextSample, histvars>>

\* One turn of the polling loop: stop_signal is true, so sleep 100 ms.
PlayPollTrue(s) ==
    /\ Running /\ play_pc[s] \in {"loop", "sleep"}
    /\ is_playing
    /\ play_pc' = [play_pc EXCEPT ![s] = "sleep"]
    /\ UNCHANGED sink
    /\ play_pending' = Polled(play_pending, s)
    /\ UNCHANGED <<neon, fvars, xvars, statusvars, resvars, ovars, uivars, bufvars, nSessions, capvars, nextSample,
                   cap_pending, cap_seen, delivered>>

\* The loop condition is false: sink.stop() and return.
PlayPollFalse(s) ==
    /\ Running /\ play_pc[s] \in {"loop", "sleep"}
    /\ ~is_playing
    /\ play_pc' = [play_pc EXCEPT ![s] = "done"]
    /\ sink' = [sink EXCEPT ![s] = "stopped"]
    /\ play_pending' = Polled(play_pending, s)
    /\ UNCHANGED <<neon, fvars, xvars, statusvars, resvars, ovars, uivars, bufvars, nSessions, capvars, nextSample,
                   cap_pending, cap_seen, delivered>>

\* The output stream plays the sink's source to its end: the source's
\* next() returned None.  Nothing in play_output looks at the sink again
\* before sink.stop().
SinkDrain(s) ==
    /\ Running /\ sink[s] = "playing"
    /\ sink' = [sink EXCEPT ![s] = "empty"]
    /\ UNCHANGED <<neon, fvars, xvars, statusvars, resvars, ovars, uivars, bufvars, nSessions, capvars, play_pc,
                   nextSample, histvars>>

\* -------------------------------------------------------------------------
\* The coordinator's specification
\* -------------------------------------------------------------------------

Init ==
    /\ neon \in BOOLEAN
    /\ tab \in Tabs
    /\ Constructed
    /\ f_samples = <<>>
    /\ f_rate = DEFAULT_SAMPLE_RATE
    /\ f_planner = "None"
    /\ f_pc = "idle"
    /\ f_out = NoOutcome
    /\ IdleDevices
    /\ IdleWave
    /\ IdleChirp

\* The controller, the capture threads and their callbacks.  play_output
\* only reads is_playing, so leaving its steps out changes nothing the other
\* threads can see.
NextCapture ==
    \/ NoClick
    \/ SelectInputFile
    \/ ClickStart
    \/ ClickStop
    \/ ClickClear
    \/ RenderPlot
    \/ Tick
    \/ \E s \in Sessions : CapEntry(s)
    \/ \E s \in Sessions : CapPollTrue(s)
    \/ \E s \in Sessions : CapPollFalse(s)
    \/ \E s \in Sessions : CapLock(s)
    \/ \E s \in Sessions : CapAnalyze(s)
    \/ \E s \in Sessions : Callback(s)

\* The controller on its own, with the edits of DetectTab's parameters: the
\* threads' steps touch neither the parameters nor the Wave.
NextParams ==
    \/ NoClick
    \/ SelectInputFile
    \/ ClickStart
    \/ ClickStop
    \/ ClickClear
    \/ RenderPlot
    \/ Tick
    \/ EditDuration
    \/ EditOutputSampleRate
    \/ EditCapturedSampleRate

\* NextCapture with the errors of the input streams.
NextStreamError ==
    \/ NextCapture
    \/ \E s \in Sessions : StreamError(s)

\* NextCapture with the exports of the captured input.
NextExport ==
    \/ NextCapture
    \/ ExportClick
    \/ ExportSaving
    \/ ExportTask
    \/ ExportDone
    \/ ExportWrite

\* The controller and the playback threads with their sinks.
NextPlayback ==
    \/ NoClick
    \/ SelectInputFile
    \/ ClickStart
    \/ ClickStop
    \/ ClickClear
    \/ RenderPlot
    \/ Tick
    \/ \E s \in Sessions : PlayOpen(s)
    \/ \E s \in Sessions : PlayPollTrue(s)
    \/ \E s \in Sessions : PlayPollFalse(s)
    \/ \E s \in Sessions : SinkDrain(s)

\* The program left alone after each Start: no "Stop" is clicked, and
\* "Start" is clicked only while nothing plays.
NextUnattended ==
    \/ NoClick
    \/ SelectInputFile
    \/ StartSession
    \/ ClickClear
    \/ RenderPlot
    \/ Tick
    \/ \E s \in Sessions : CapEntry(s)
    \/ \E s \in Sessions : CapPollTrue(s)
    \/ \E s \in Sessions : CapPollFalse(s)
    \/ \E s \in Sessions : CapLock(s)
    \/ \E s \in Sessions : CapAnalyze(s)
    \/ \E s \in Sessions : Callback(s)
    \/ \E s \in Sessions : PlayOpen(s)
    \/ \E s \in Sessions : PlayPollTrue(s)
    \/ \E s \in Sessions : PlayPollFalse(s)
    \/ \E s \in Sessions : SinkDrain(s)

Next ==
    \/ NoClick
    \/ SelectInputFile
    \/ ClickStart
    \/ ClickStop
    \/ ClickClear
    \/ RenderPlot
    \/ Tick
    \/ \E s \in Sessions : CapEntry(s)
    \/ \E s \in Sessions : CapPollTrue(s)
    \/ \E s \in Sessions : CapPollFalse(s)
    \/ \E s \in Sessions : CapLock(s)
    \/ \E s \in Sessions : CapAnalyze(s)
    \/ \E s \in Sessions : Callback(s)
    \/ \E s \in Sessions : PlayOpen(s)
    \/ \E s \in Sessions : PlayPollTrue(s)
    \/ \E s \in Sessions : PlayPollFalse(s)
    \/ \E s \in Sessions : SinkDrain(s)

\* -------------------------------------------------------------------------
\* freq_of_resonance called on its own, on every bounded input
\* -------------------------------------------------------------------------

Amps == (-MaxAmp)..MaxAmp

SampleBuffers == UNION {[1..n -> Amps] : n \in FftLens}

Rates == {DEFAULT_SAMPLE_RATE, DEFAULT_CAPTURED_INPUT_SAMPLE_RATE}

InitFreq ==
    /\ neon \in BOOLEAN
    /\ f_samples \in SampleBuffers
    /\ f_rate \in Rates
    /\ f_planner \in Planner \cup {"None"}
    /\ f_pc = "ready"
    /\ f_out = NoOutcome
    /\ IdleCoordinator
    /\ IdleDevices
    /\ IdleWave
    /\ IdleChirp

CallFreq ==
    /\ f_pc = "ready"
    /\ f_out' = freq_of_resonance(f_samples, f_rate, f_planner, neon)
    /\ f_pc' = IF f_out'.kind = "ok" THEN "returned" ELSE "panicked"
    /\ UNCHANGED <<neon, f_samples, f_rate, f_planner, cvars, xvars>>

NextFreq == CallFreq

\* The state outside the device resolution, as InitDevice leaves it.
IdleFreq ==
    /\ neon = TRUE /\ f_samples = <<>> /\ f_rate = DEFAULT_SAMPLE_RATE
    /\ f_planner = "None" /\ f_pc = "idle" /\ f_out = NoOutcome

\* -------------------------------------------------------------------------
\* Device resolution called on its own, on every bounded host
\* -------------------------------------------------------------------------

DeviceLists == UNION {[1..n -> DeviceNames \cup {NameErr}] : n \in 0..MaxDevices}

InitDevice ==
    /\ d_kind \in {"input", "output"}
    /\ d_enumerable \in BOOLEAN
    /\ d_devices \in DeviceLists
    /\ d_default \in 0..Len(d_devices)
    /\ d_name \in DeviceNames
    /\ d_pc = "ready"
    /\ d_out = 0
    /\ IdleFreq
    /\ IdleCoordinator
    /\ IdleWave
    /\ IdleChirp

CallSelectDevice ==
    /\ d_pc = "ready"
    /\ LET out == IF d_kind = "input"
                  THEN select_input_device(d_enumerable, d_devices, d_default, d_name)
                  ELSE select_output_device(d_enumerable, d_devices, d_default, d_name)
       IN  /\ d_pc' = IF out.kind = "ok" THEN "returned" ELSE "panicked"
           /\ d_out' = out.device
    /\ UNCHANGED <<neon, fvars, cvars, d_kind, d_enumerable, d_devices, d_default, d_name>>
    /\ UNCHANGED <<wvars, chvars>>

NextDevice == CallSelectDevice

\* -------------------------------------------------------------------------
\* A signal built and consumed on its own: a Wave on every bounded valid
\* argument, or a Chirp on every bounded WAV file
\* -------------------------------------------------------------------------

WaveArgs ==
    [sample_rate : 1..MaxRate, frequency : 0..MaxFreq, duration : 1..MaxDuration]

\* Sample values of a WAV file.
WavAmps == {-1, 1}

WavFiles ==
    UNION {[frames : {n}, sample_rate : 1..MaxRate, channels : {ch}, bits : {16, 24},
            data : [1..(n * ch) -> WavAmps]] : n \in 0..MaxFrames, ch \in 1..2}

InitSignal ==
    /\ \/ w_args \in WaveArgs /\ w_pc = "args" /\ wave = NoWave /\ w_calls = 0
          /\ w_ret = None /\ IdleChirp
       \/ c_wav \in WavFiles /\ c_pc = "file" /\ c_chirp = NoChirp /\ c_calls = 0
          /\ c_ret = None /\ IdleWave
    /\ IdleFreq
    /\ IdleCoordinator
    /\ IdleDevices

CallWaveNew ==
    /\ w_pc = "args"
    /\ wave' = WaveNew(w_args.sample_rate, w_args.frequency, w_args.duration)
    /\ w_pc' = "built"
    /\ UNCHANGED <<neon, fvars, cvars, dvars, chvars, w_args, w_calls, w_ret>>

\* One call of next(); calls after the second None add nothing.
CallWaveNext ==
    /\ w_pc = "built"
    /\ w_calls < Len(wave.samples) + 2
    /\ wave' = WaveNext(wave).sig
    /\ w_ret' = WaveNext(wave).ret
    /\ w_calls' = w_calls + 1
    /\ UNCHANGED <<neon, fvars, cvars, dvars, chvars, w_args, w_pc>>

CallChirpTryFrom ==
    /\ c_pc = "file"
    /\ c_chirp' = ChirpTryFrom(c_wav).chirp
    /\ c_pc' = IF ChirpTryFrom(c_wav).kind = "ok" THEN "built" ELSE "failed"
    /\ UNCHANGED <<neon, fvars, cvars, dvars, wvars, c_wav, c_calls, c_ret>>

\* One call of next(); calls after the second None add nothing.
CallChirpNext ==
    /\ c_pc = "built"
    /\ c_calls < Len(c_chirp.samples) + 2
    /\ c_chirp' = ChirpNext(c_chirp).sig
    /\ c_ret' = ChirpNext(c_chirp).ret
    /\ c_calls' = c_calls + 1
    /\ UNCHANGED <<neon, fvars, cvars, dvars, wvars, c_wav, c_pc>>

NextSignal ==
    \/ CallWaveNew
    \/ CallWaveNext
    \/ CallChirpTryFrom
    \/ CallChirpNext

vars == <<neon, fvars, cvars, xvars>>

\* The controller keeps rendering, time passes, play_output is scheduled and
\* the output stream keeps consuming its source; nothing is assumed of what
\* the user clicks.
PlaybackFairness ==
    /\ WF_vars(NoClick \/ SelectInputFile \/ ClickStart \/ ClickStop \/ ClickClear)
    /\ WF_vars(RenderPlot)
    /\ WF_vars(Tick)
    /\ \A s \in Sessions :
        /\ WF_vars(PlayOpen(s))
        /\ WF_vars(PlayPollTrue(s))
        /\ WF_vars(PlayPollFalse(s))
        /\ WF_vars(SinkDrain(s))

SpecFreq == InitFreq /\ [][NextFreq]_vars

Spec == Init /\ [][Next]_vars

SpecCapture == Init /\ [][NextCapture]_vars

SpecParams == Init /\ [][NextParams]_vars

\* The controller keeps rendering (egui repaints: ctx.request_repaint() ends
\* every frame), time passes, and every thread is scheduled.
UnattendedFairness ==
    /\ WF_vars(NoClick \/ SelectInputFile \/ StartSession \/ ClickClear)
    /\ WF_vars(RenderPlot)
    /\ WF_vars(Tick)
    /\ \A s \in Sessions :
        /\ WF_vars(CapEntry(s))
        /\ WF_vars(CapPollTrue(s))
        /\ WF_vars(CapPollFalse(s))
        /\ WF_vars(CapLock(s))
        /\ WF_vars(CapAnalyze(s))
        /\ WF_vars(PlayOpen(s))
        /\ WF_vars(PlayPollTrue(s))
        /\ WF_vars(PlayPollFalse(s))

SpecUnattended == Init /\ [][NextUnattended]_vars /\ UnattendedFairness

\* The controller keeps rendering (ctx.request_repaint() ends every frame),
\* time passes, and every capture thread is scheduled; nothing is assumed of
\* what the user clicks or of what the input device delivers.
ResultsFairness ==
    /\ WF_vars(NoClick \/ SelectInputFile \/ ClickStart \/ ClickStop \/ ClickClear)
    /\ WF_vars(RenderPlot)
    /\ WF_vars(Tick)
    /\ \A s \in Sessions :
        /\ WF_vars(CapEntry(s))
        /\ WF_vars(CapPollTrue(s))
        /\ WF_vars(CapPollFalse(s))
        /\ WF_vars(CapLock(s))
        /\ WF_vars(CapAnalyze(s))

SpecResults == Init /\ [][NextCapture]_vars /\ ResultsFairness

\* ResultsFairness, and a thread blocked in Mutex::lock() is woken
\* each time the guard is dropped: it is not passed over forever by holders
\* that come back a frame or a poll later.
LockFairness ==
    /\ ResultsFairness
    /\ SF_vars(RenderPlot)
    /\ \A s \in Sessions : SF_vars(CapLock(s))

SpecLocks == Init /\ [][NextCapture]_vars /\ LockFairness

SpecStreamError == Init /\ [][NextStreamError]_vars

SpecExport == Init /\ [][NextExport]_vars

SpecPlayback == Init /\ [][NextPlayback]_vars /\ PlaybackFairness

SpecDevice == InitDevice /\ [][NextDevice]_vars

SpecSignal == InitSignal /\ [][NextSignal]_vars

\* -------------------------------------------------------------------------
\* Claims
\* -------------------------------------------------------------------------

Range(q) == {q[i] : i \in 1..Len(q)}

\* capture_input of session s has ended, one way or another.
CapTerminated(s) ==
    cap_pc[s] \in {"done", "returned", "panicked_device", "panicked_lock", "panicked_analyzer"}

\* |X_k|^2 of every bin k = 0..N-1 of the N-point DFT of x (1-based).
Spectrum(x) == [k \in 1..Len(x) |-> NormSqr(Len(x), FftProcess(x)[k])]

\* The 0-based indices of the lower half of the spectrum of n bins.
LowerHalf(n) == 0..((n \div 2) - 1)

\* C1 (as stated): every capture thread of a session that was started and
\* then stopped has sent exactly one resonance frequency: a capture_input
\* that has ended has sent its result.
C1_OneResultPerSession ==
    \A s \in Sessions : CapTerminated(s) => cap_pc[s] = "done"

\* C2 (as stated): every sample the input callback appended before
\* capture_input saw is_playing false is in the final snapshot handed to the
\* analyzer.
C2_NoSampleLost ==
    \A s \in Sessions : cap_pc[s] = "analyze" => cap_seen[s] \subseteq Range(cap_snap[s])

\* C3 (as stated): once is_playing goes false while a thread sleeps in its
\* polling loop, the poll that follows the sleep ends the loop: no thread with
\* a pending stop polls and sleeps again.
C3_StopWithinOnePoll ==
    [][\A s \in Sessions :
         /\ ~(cap_pending[s] /\ ~cap_pending'[s] /\ cap_pc'[s] = "loop")
         /\ ~(play_pending[s] /\ ~play_pending'[s] /\ play_pc'[s] = "sleep")]_vars

\* C4 (as stated): at most one session's input stream is appending to a given
\* buffer at any moment.
C4_SingleWriter ==
    \A b \in BufIds :
        Cardinality({s \in Sessions : cap_buf[s] = b /\ stream[s] = "playing"}) <= 1

\* C5: the snapshot is taken after capture_input saw is_playing false (it
\* has left its loop and its stream no longer plays), and from the snapshot
\* until the result is sent the buffer still equals the snapshot: no callback
\* append (and no Clear) got in between.
C5_SnapshotStable ==
    \A s \in Sessions :
        cap_pc[s] = "analyze" =>
            /\ stream[s] \in {"paused", "dead"}
            /\ bufData[cap_buf[s]] = cap_snap[s]

\* C5 witness: session s analyzes a non-empty snapshot while another
\* session's stream is playing into the same buffer.
C5_Witness ==
    \E s, o \in Sessions :
        /\ s # o
        /\ cap_pc[s] = "analyze" /\ Len(cap_snap[s]) >= 1
        /\ cap_buf[o] = cap_buf[s] /\ stream[o] = "playing"

\* C6 (as stated): the buffer a new session will append to is empty when
\* start_sound spawns its capture thread.
C6_EmptyAtStart ==
    [][\A s \in Sessions :
         (cap_pc[s] = "unborn" /\ cap_pc'[s] = "spawned") =>
             Len(bufData[cap_buf'[s]]) = 0]_vars

\* The outcome of the call on f_samples is the frequency of a peak of the
\* lower half: it returned k * (sample_rate / N) for a k in 0..floor(N/2)-1
\* whose magnitude is at least that of every other bin of that range, the
\* transform having N bins.
PeakOfLowerHalf ==
    LET n == Len(f_samples)
        k == f_out.k
    IN  /\ f_pc = "returned"
        /\ f_out.len = n /\ Len(FftProcess(f_samples)) = n
        /\ k \in LowerHalf(n)
        /\ f_out.val = k * (f_rate \div n)
        /\ \A j \in LowerHalf(n) : Spectrum(f_samples)[k + 1] >= Spectrum(f_samples)[j + 1]

\* C7 (as stated): for every buffer of N >= 2 samples, freq_of_resonance
\* returns the frequency of a peak of the lower half of the N-bin spectrum.
C7_PeakOfLowerHalf ==
    (f_pc # "ready" /\ Len(f_samples) >= 2) => PeakOfLowerHalf

\* What holds of the code instead: the same on the hosts where
\* FftPlannerNeon::new() succeeds.
PeakOfLowerHalf_OnNeon ==
    (f_pc # "ready" /\ neon /\ Len(f_samples) >= 2) => PeakOfLowerHalf

\* C8: the selected index k satisfies 2*k < N and the returned frequency is
\* below sample_rate / 2.
C8_BelowNyquist ==
    f_pc = "returned" =>
        /\ 2 * f_out.k < Len(f_samples)
        /\ 2 * f_out.val < f_rate

\* C8 witness: a call returned although a bin of the upper half is strictly
\* larger than every bin of the lower half.
C8_Witness ==
    /\ f_pc = "returned"
    /\ \E u \in (Len(f_samples) \div 2)..(Len(f_samples) - 1) :
           \A j \in LowerHalf(Len(f_samples)) :
               Spectrum(f_samples)[u + 1] > Spectrum(f_samples)[j + 1]

\* C9 (as stated): among the searched bins that share the maximum, the first
\* one is selected: every searched bin before k is strictly smaller.
C9_FirstOccurrence ==
    f_pc = "returned" =>
        \A j \in LowerHalf(Len(f_samples)) :
            j < f_out.k => Spectrum(f_samples)[j + 1] < Spectrum(f_samples)[f_out.k + 1]

\* What holds of the code instead: among the searched bins that share the
\* maximum, the last one is selected.
LastOccurrence ==
    f_pc = "returned" =>
        \A j \in LowerHalf(Len(f_samples)) :
            /\ Spectrum(f_samples)[j + 1] <= Spectrum(f_samples)[f_out.k + 1]
            /\ j > f_out.k => Spectrum(f_samples)[j + 1] < Spectrum(f_samples)[f_out.k + 1]

\* The lengths of the sine buffers: those whose sines are exact.
SineLens == FftLens \ {0}

\* C11 (as stated, exact multiples): for a pure sine of frequency
\* f = c * (r / N), 0 < f < r / 2, sampled at rate r over N samples,
\* freq_of_resonance, when it returns, returns exactly f.
C11_SineRoundTrip ==
    \A n \in SineLens : \A c \in 1..n :
        (2 * c < n /\ f_pc = "returned" /\ f_samples = generate_sine_wave(c, n)) =>
            f_out.val = c * (f_rate \div n)

\* What holds of the code instead: the same for the frequencies of the
\* searched bins, c <= floor(N/2) - 1.
SineRoundTrip_SearchedBins ==
    \A n \in SineLens : \A c \in 1..n :
        (c \in LowerHalf(n) /\ f_pc = "returned" /\ f_samples = generate_sine_wave(c, n)) =>
            f_out.val = c * (f_rate \div n)

\* A thread of session s died while resolving or opening its device.
DeviceFailed(s) == cap_pc[s] = "panicked_device" \/ play_pc[s] = "panicked_device"

\* C13 (as stated): a device failure in a thread of the running session is
\* surfaced to the controller: the controller's next frame (no new session
\* is spawned in it) does not leave the session marked as playing.
C13_FailureSurfaced ==
    [][\A s \in Sessions :
         (/\ DeviceFailed(s) /\ s = nSessions /\ nSessions' = nSessions
          /\ ui_pc = "controls" /\ ui_pc' = "plot") => ~is_playing']_vars

\* C14 (as stated): after the analyzer failed inside a capture thread the
\* buffer's lock is acquirable: the controller is alive and the buffer it
\* holds is not poisoned.
C14_LockAcquirable ==
    (\E s \in Sessions : cap_pc[s] = "panicked_analyzer") =>
        (ui_pc # "crashed" /\ ~bufPoisoned[captured_buffer])

\* C15: "Default" resolves to the host's default device whenever there is one,
\* whatever the enumeration gives; any other name resolves, when it resolves,
\* to an enumerated device of exactly that name, and it does resolve when such
\* a device is enumerated and the names before it can be read.
C15_DeviceResolution ==
    d_pc \in {"returned", "panicked"} =>
        IF d_name = "Default"
        THEN IF d_default # 0
             THEN d_pc = "returned" /\ d_out = d_default
             ELSE d_pc = "panicked"
        ELSE /\ d_pc = "returned" =>
                   d_out \in 1..Len(d_devices) /\ d_devices[d_out] = d_name
             /\ (/\ d_enumerable
                 /\ \E i \in 1..Len(d_devices) :
                        /\ d_devices[i] = d_name
                        /\ \A j \in 1..(i - 1) : d_devices[j] # NameErr)
                   => d_pc = "returned"

\* C15 witness: "Mic" resolved to the second enumerated device although the
\* first is named "mic" and is the host's default.
C15_Witness ==
    /\ d_pc = "returned" /\ d_name = "Mic"
    /\ Len(d_devices) = 2 /\ d_devices[1] = "mic" /\ d_default = 1
    /\ d_out = 2

SinEq(p, q, r) == p = q \/ (2 * (p + q)) % (2 * r) = r

\* C17 (as stated): sample i of a Wave is sin(2 pi frequency i / sample_rate)
\* for every index i, also beyond the first second.
C17_SampleAtIndexTime ==
    w_pc = "built" =>
        \A i \in 0..(Len(wave.samples) - 1) :
            SinEq(wave.samples[i + 1], (wave.frequency * i) % wave.sample_rate,
                  wave.sample_rate)

\* What holds of the code instead: the same for the indices of the first
\* second, i <= sample_rate.
SampleAtIndexTime_FirstSecond ==
    w_pc = "built" =>
        \A i \in 0..(Len(wave.samples) - 1) :
            i <= wave.sample_rate =>
                SinEq(wave.samples[i + 1], (wave.frequency * i) % wave.sample_rate,
                      wave.sample_rate)

\* After k calls of next() on a signal of samples `samples`: the cursor is at
\* min(k, len), and the k-th call returned samples[k-1], or None after the end.
CursorAfter(sig, calls, ret, samples) ==
    /\ sig.samples = samples
    /\ sig.index \in 0..Len(samples)
    /\ sig.index = IF calls <= Len(samples) THEN calls ELSE Len(samples)
    /\ calls >= 1 => ret = IF calls <= Len(samples) THEN Some(samples[calls]) ELSE None

\* C19: over any sequence of next() calls on a Wave or a Chirp the index
\* never decreases and stays within 0..=len, the k-th call returns
\* samples[k-1], every call after the end returns None and leaves the index
\* where it is, and no call changes the samples or the metadata.
C19_SinglePassCursor ==
    [][/\ w_pc' = "built" =>
            CursorAfter(wave', w_calls', w_ret',
                        build_sine_wave(w_args.sample_rate, w_args.frequency, w_args.duration))
       /\ (w_pc = "built" /\ w_pc' = "built") =>
            /\ wave'.index >= wave.index
            /\ [wave' EXCEPT !.index = 0] = [wave EXCEPT !.index = 0]
       /\ c_pc' = "built" =>
            CursorAfter(c_chirp', c_calls', c_ret', c_wav.data)
       /\ (c_pc = "built" /\ c_pc' = "built") =>
            /\ c_chirp'.index >= c_chirp.index
            /\ [c_chirp' EXCEPT !.index = 0] = [c_chirp EXCEPT !.index = 0]]_vars

\* C19 witness: a Wave of at least two samples was consumed to its end and
\* next() was called once more.
C19_Witness ==
    /\ w_pc = "built" /\ Len(wave.samples) >= 2
    /\ w_calls = Len(wave.samples) + 2 /\ w_ret = None /\ wave.index = Len(wave.samples)

\* C20 (as stated): a Chirp built from a WAV file has
\* samples.len() == round(sample_rate * duration).
C20_ChirpLength ==
    c_pc = "built" => Len(c_chirp.samples) = c_chirp.sample_rate * c_chirp.duration

\* C18 (as stated): the Wave DetectTab holds and plays was never built with
\* a sample rate or a duration that is not positive, and it is not of zero
\* length.
C18_ValidSignal ==
    tab = "detect" =>
        /\ tab_sine_wave.sample_rate > 0
        /\ tab_sine_wave.duration > 0
        /\ TotalSamples(tab_sine_wave.sample_rate, tab_sine_wave.duration) > 0

\* C21 (as stated): a Chirp built from a WAV file has duration equal to the
\* exact ratio frame_count / sample_rate: duration * sample_rate = frame_count.
C21_ExactDuration ==
    c_pc = "built" => c_chirp.duration * c_wav.sample_rate = c_wav.frames

\* C22 (as stated): play_output terminates once its signal source is
\* exhausted, whether or not is_playing is ever set to false.
C22_PlaybackSelfBounded ==
    \A s \in Sessions : (sink[s] = "empty") ~> (play_pc[s] = "done")

\* play_output of session s has ended, one way or another.
PlayTerminated(s) == play_pc[s] \in {"done", "panicked_device"}

\* C23 (as stated): with the controller rendering and no Stop click, a
\* session that was started ends by itself: is_playing becomes false again,
\* and the threads of every session terminate, on every tab and whether or
\* not a signal is loaded.
C23_DurationStopAuthoritative ==
    /\ is_playing ~> (~is_playing \/ ~Running)
    /\ \A s \in Sessions :
           (cap_pc[s] # "unborn") ~> ((CapTerminated(s) /\ PlayTerminated(s)) \/ ~Running)

\* What holds of the code instead: the same once a signal is loaded (DetectTab
\* always has one).
DurationStop_SignalLoaded ==
    /\ (is_playing /\ (tab = "detect" \/ current_chirp)) ~> (~is_playing \/ ~Running)
    /\ \A s \in Sessions :
           (cap_pc[s] # "unborn") ~> ((CapTerminated(s) /\ PlayTerminated(s)) \/ ~Running)

\* C24: a step in which an input stream's error callback runs leaves
\* is_playing, every buffer and the result channel as they are, and leaves
\* every capture thread and every stream where it is: the thread polls on.
C24_ErrorLeavesSession ==
    [][(stream_errors' # stream_errors) =>
          /\ is_playing' = is_playing
          /\ bufData' = bufData
          /\ for_ch' = for_ch
          /\ cap_pc' = cap_pc
          /\ stream' = stream]_vars

\* C24 witness: the stream of a session reported an error, and the session
\* went on to its end: its capture thread sent the result of a non-empty
\* snapshot.
C24_Witness ==
    \E s \in Sessions :
        stream_errors[s] > 0 /\ cap_pc[s] = "done" /\ Len(cap_snap[s]) >= 1

IsPrefix(a, b) == Len(a) <= Len(b) /\ SubSeq(b, 1, Len(a)) = a

\* C26: in every step taken while is_playing is true the controller keeps
\* its buffer, and the buffer's contents before the step are a prefix of its
\* contents after it.
C26_AppendOnlyWhileRunning ==
    [][is_playing =>
          /\ captured_buffer' = captured_buffer
          /\ IsPrefix(bufData[captured_buffer], bufData'[captured_buffer])]_vars

\* C26 witness: is_playing is true and the callbacks have appended every
\* sample of the run to the controller's buffer.
C26_Witness ==
    /\ is_playing
    /\ Len(bufData[captured_buffer]) = MaxSamples

\* C27 (as stated): the buffer's lock is held only for an append or for a
\* read-and-clone: capture_input does not hold it while the analyzer runs and
\* the result is sent, and no export holds it while its file is written.
C27_ShortCriticalSections ==
    /\ \A s \in Sessions : cap_pc[s] = "analyze" => bufHolder[cap_buf[s]] # s
    /\ export_pc = "writing" => bufHolder[captured_buffer] # UiHolder

\* The first conjunct of C27 on its own: it fails as well.
AnalyzerRunsUnlocked ==
    \A s \in Sessions : cap_pc[s] = "analyze" => bufHolder[cap_buf[s]] # s

\* Session s is armed: its output device is open with the signal in its sink,
\* and its input stream is built with the append callback.
Armed(s) ==
    /\ sink[s] \in {"playing", "empty"}
    /\ stream[s] \in {"built", "playing", "paused"}

\* C28 (as stated): when the controller sets is_playing to true, the session
\* it starts is armed already.
C28_ArmedBeforeRunning ==
    [][(~is_playing /\ is_playing') =>
          (nSessions' >= 1 /\ Armed(nSessions)' )]_vars

\* C29 (as stated): every buffer equals the frames handed to its callbacks
\* since its last Clear, in the order they were handed over: none dropped,
\* duplicated or reordered.
C29_EveryFrameAppended ==
    \A b \in BufIds : bufData[b] = delivered[b]

\* What holds of the code instead: the same as long as no buffer's lock is
\* poisoned.
EveryFrameAppended_Unpoisoned ==
    (\A b \in BufIds : ~bufPoisoned[b]) => C29_EveryFrameAppended

\* is_playing is false and the capture thread of every session is out of
\* its loop.  (play_output is given no handle on the buffer, so where it is
\* makes no difference: the state is asked less than the claim asks.)
SessionsOver ==
    /\ ~is_playing
    /\ \A s \in Sessions : cap_pc[s] \notin {"spawned", "loop"}

\* C30: once is_playing is false and every capture thread has left its loop, a step
\* (a render, an export, the rest of capture_input) leaves the contents of
\* the controller's buffer as they are, unless it is a frame in which "Clear"
\* empties it.
C30_ContentsKept ==
    [][SessionsOver =>
          \/ bufData'[captured_buffer'] = bufData[captured_buffer]
          \/ (ui_pc = "controls" /\ bufData'[captured_buffer'] = <<>>)]_vars

\* C30 witness: a session captured samples and ended, frames were rendered
\* and an export was written, and the buffer still holds what was captured.
C30_Witness ==
    /\ SessionsOver
    /\ \E s \in Sessions : cap_pc[s] = "done" /\ Len(cap_snap[s]) >= 1
    /\ export_pc = "done" /\ Len(export_file) >= 1
    /\ bufData[captured_buffer] = export_file

\* C31: a thread is born only in a frame entered with started_sound false,
\* and it is the next session's pair, one capture thread and one playback
\* thread; started_sound goes from true to false only in a frame in which
\* "Stop" is clicked or the duration timer fires.
C31_OneSpawnPerCycle ==
    [][/\ \A s \in Sessions :
            (cap_pc[s] = "unborn" /\ cap_pc'[s] # "unborn")
            \/ (play_pc[s] = "unborn" /\ play_pc'[s] # "unborn")
            => /\ ~started_sound
               /\ s = nSessions + 1 /\ nSessions' = s
               /\ cap_pc'[s] = "spawned" /\ play_pc'[s] = "spawned"
       /\ (started_sound /\ ~started_sound')
            => ClickStop \/ TimerFires(expired', current_chirp')]_vars

\* The first frame of a session is over, its capture thread polls, and the
\* controller is about to render again with RunState and started_sound true.
C31_Witness ==
    /\ ui_pc = "controls" /\ is_playing /\ started_sound
    /\ nSessions = 1 /\ cap_pc[1] = "loop" /\ stream[1] = "playing"

\* A frame of CalibrateTab whose test of is_playing after the buttons finds it
\* false: the frame paints "Frequency of resonance: {last_for}".
Displays ==
    /\ tab = "calibrate" /\ ui_pc = "controls" /\ ui_pc' = "plot"
    /\ ClickStop \/ (~is_playing /\ ~ClickStart)

\* C32: in every frame that displays the frequency of resonance after some
\* session completed, last_for holds the result of the session stopped last
\* (the last one spawned: RunState is false, so every session was stopped).
C32_DisplaysLatestResult ==
    [][(Displays /\ \E s \in Sessions : cap_pc[s] = "done")
          => last_from = nSessions]_vars

\* The weaker reading of C32: a frame never displays the result of a session
\* earlier than the one stopped last.
DisplaysNoEarlierResult ==
    [][(Displays /\ \E s \in Sessions : cap_pc[s] = "done")
          => last_from \in {0, nSessions}]_vars

\* No capture thread is between its spawn and its end.
CaptureFinished ==
    \A s \in Sessions : cap_pc[s] \notin {"spawned", "loop", "lock", "analyze"}

\* C33: last_for changes only by taking the oldest result of the channel, one
\* per frame; and in CalibrateTab, once every capture thread has finished, the
\* channel is eventually drained into last_for, which then holds the result
\* sent last.
C33_ResultsConsumedInOrder ==
    /\ [][(last_from' # last_from \/ last_for' # last_for \/ Len(for_ch') < Len(for_ch))
             => /\ for_ch # <<>>
                /\ last_for' = Head(for_ch) /\ for_ch' = Tail(for_ch)
                /\ last_from' = Head(for_from) /\ for_from' = Tail(for_from)]_vars
    /\ (tab = "calibrate" /\ CaptureFinished /\ for_ch # <<>>) ~> (for_ch = <<>>)

\* C34: in CalibrateTab, while a Start..Stop cycle begun with no chirp
\* loaded lasts, exactly one "Please choose a chirp input file" has been
\* sent since its Start, whatever the number of frames; no cycle sends more
\* than one; and up to the next Start after such a cycle no thread exists
\* and every buffer is as it was constructed.
C34_PromptOncePerCycle ==
    /\ prompts <= 1
    /\ (tab = "calibrate" /\ is_playing /\ ~current_chirp) => (prompts = 1 /\ started_sound)
    /\ prompts = 1 =>
          /\ nSessions = 0
          /\ \A s \in Sessions : cap_pc[s] = "unborn" /\ play_pc[s] = "unborn"
          /\ captured_buffer = 1
          /\ \A b \in BufIds : bufData[b] = <<>> /\ ~bufPoisoned[b]

\* C34 witness: Start was clicked with no chirp loaded, the frame of the
\* click is over, time has passed, and the next frame is about to be rendered.
C34_Witness ==
    /\ tab = "calibrate" /\ ~current_chirp
    /\ is_playing /\ started_sound /\ expired
    /\ ui_pc = "controls" /\ prompts = 1

\* C35: the step in which capture_input finds is_playing false on entry ends
\* the call and changes nothing else: no stream is built, no buffer, lock or
\* snapshot changes, nothing is sent; and a call that returned this way has
\* no stream and no result in the channel or in last_for.
C35_EarlyReturnInert ==
    /\ [][\A s \in Sessions :
            (cap_pc[s] = "spawned" /\ cap_pc'[s] # "spawned" /\ ~is_playing)
            => /\ cap_pc'[s] = "returned"
               /\ UNCHANGED <<stream, bufvars, cap_snap, for_ch, resvars, delivered,
                              nextSample>>]_vars
    /\ [](\A s \in Sessions :
            cap_pc[s] = "returned"
            => /\ stream[s] = "none" /\ cap_snap[s] = <<>>
               /\ s \notin Range(for_from) /\ last_from # s)

\* C35 witness: a capture_input call returned at its entry check while the
\* other session captured and sent its result.
C35_Witness ==
    \E s, t \in Sessions :
        /\ cap_pc[s] = "returned"
        /\ cap_pc[t] = "done" /\ bufData[cap_buf[s]] # <<>>

\* The thread that holds the guard of buffer b is at the step that ends with
\* the guard dropped: a capture thread in the analysis of its snapshot, or
\* the UI thread in DetectTab's export handler.  Neither waits for anything.
HolderRuns(b) ==
    /\ bufHolder[b] \in Sessions =>
          cap_pc[bufHolder[b]] = "analyze" /\ cap_buf[bufHolder[b]] = b
    /\ bufHolder[b] = UiHolder => (ui_pc = "export" /\ captured_buffer = b)
    /\ bufHolder[b] \in Sessions \cup {0, UiHolder}

\* C36: while the process is alive, whoever holds a buffer's guard is at a
\* step that needs nothing more and drops the guard when it takes it; under
\* LockFairness a capture thread that waits for the lock or analyzes goes on
\* to its end (the send never waits), and a frame that waits for the lock
\* of its plot block goes on to its end.
C36_DeadlockFree ==
    /\ [](Running => \A b \in BufIds : HolderRuns(b))
    /\ [][\A s \in Sessions :
              (cap_pc[s] = "analyze" /\ cap_pc'[s] # "analyze") => bufHolder'[cap_buf[s]] = 0]_vars
    /\ \A s \in Sessions :
          (cap_pc[s] \in {"lock", "analyze"}) ~> (CapTerminated(s) \/ ~Running)
    /\ (ui_pc = "plot") ~> (ui_pc # "plot")

\* C36 witness: a capture thread waits for the lock of the buffer whose
\* guard the other capture thread holds while it analyzes, and the
\* controller's frame waits for it too.
C36_Witness ==
    \E s, t \in Sessions :
        /\ cap_pc[s] = "lock" /\ cap_pc[t] = "analyze"
        /\ cap_buf[s] = cap_buf[t] /\ bufHolder[cap_buf[s]] = t
        /\ ui_pc = "plot" /\ captured_buffer = cap_buf[s]

\* C37: the sample rate a session's capture_input is given at its spawn is
\* the tab's captured-input sample rate as the user left it before Start,
\* the rate the tab divides by for the time axis and hands to the exports;
\* and while the session runs the two stay equal.
C37_AnalyzerRateIsCapturedRate ==
    /\ [][\A s \in Sessions :
            (cap_pc[s] = "unborn" /\ cap_pc'[s] # "unborn")
            => cap_rate'[s] = captured_sample_rate']_vars
    /\ []((is_playing /\ nSessions >= 1 /\ cap_pc[nSessions] = "spawned" /\ started_sound)
            => cap_rate[nSessions] = captured_sample_rate)

\* C37 restricted to DetectTab: it holds there.
AnalyzerRateIsCapturedRate_Detect ==
    [][\A s \in Sessions :
          (tab = "detect" /\ cap_pc[s] = "unborn" /\ cap_pc'[s] # "unborn")
          => cap_rate'[s] = captured_sample_rate']_vars

\* C38 (as stated): for every buffer of N >= 1 samples the call completes
\* with a frequency (here on a host whose NEON planner constructs).
C38_ResultForNonEmpty ==
    (f_pc # "ready" /\ neon /\ Len(f_samples) >= 1) => f_pc = "returned"

\* What holds of the code instead: the same for N >= 2.
ResultForTwoOrMore ==
    (f_pc # "ready" /\ neon /\ Len(f_samples) >= 2) => f_pc = "returned"

\* C39 (as stated): on a host without the NEON backend, a call that selects
\* another backend (planner None, FftPlanner or FftPlannerScalar) completes
\* with a frequency (here for buffers of N >= 2 samples).
C39_SelectedBackendDecides ==
    (f_pc # "ready" /\ ~neon /\ f_planner \in {"None", "FftPlanner", "FftPlannerScalar"}
        /\ Len(f_samples) >= 2)
    => f_pc = "returned"

\* C40 (as stated): the messages of CalibrateTab's export task are ordered and
\* truthful: the write has not run before "Saving ... file" is sent, and
\* "Done saving ... file" is among the messages only if the write succeeded.
C40_TruthfulStatus ==
    tab = "calibrate" =>
        /\ export_pc \in {"done", "failed"} =>
              (export_msgs # <<>> /\ export_msgs[1] = "Saving file")
        /\ "Done saving file" \in Range(export_msgs) => export_pc = "done"

\* The first half of C40 on its own: it holds.
SavingBeforeWrite ==
    (tab = "calibrate" /\ export_pc \in {"done", "failed"}) =>
        (export_msgs # <<>> /\ export_msgs[1] = "Saving file")

\* C10 (as stated): an empty final snapshot makes the analyzer report an
\* error to capture_input, which is not terminated by it (here on a host
\* whose NEON planner constructs).
C10_EmptyBufferSurvived ==
    \A s \in Sessions :
        (neon /\ cap_snap[s] = <<>>) => cap_pc[s] # "panicked_analyzer"

====
